---- MODULE Spec2Model ----
(***************************************************************************)
(* Merkle-tree membership proofs of the campaign claim endpoint            *)
(* (backend/main.py: MerkleTree, _hash_address, get_voucher_claim_details).*)
(*                                                                         *)
(* Byte strings are sequences of naturals (one per byte); b'' is <<>>.     *)
(* hashlib.sha3_256 is modelled as a collision-free function: the digest   *)
(* of x is x itself behind its length, so two digests are equal exactly    *)
(* when their inputs are, and the concatenation of two digests splits in   *)
(* one way only.  Byte order (Python's comparison of bytes) is the         *)
(* lexicographic order of these sequences.                                 *)
(***************************************************************************)
EXTENDS Integers, Sequences, FiniteSets, TLC

VARIABLES
    \* one MerkleTree object and its caller
    leaves,      \* MerkleTree.leaves: the list the tree was constructed from
    layers,      \* MerkleTree.layers
    pc,          \* position of the caller: building, ready, proving, returned
    leaf,        \* get_proof: its argument
    index,       \* get_proof: the running index (0-based, as in the code)
    k,           \* get_proof: number of the layer the for loop visits next (1-based)
    proof,       \* get_proof: the list built so far, then the returned list
    root,        \* get_root: what the last call returned or raised
    \* one call of the proof verifier
    v_call,      \* its arguments [leaf, index, proof, root], once called
    v_result,    \* its result
    \* one request to GET /api/vouchers/{voucher_id}/claim-details
    db,          \* the rows the request reads: voucher, campaign
    ep_pc,       \* position of the handler: start, voucher, campaign, done
    response,    \* the HTTP response, once the handler has ended
    \* two requests to the same endpoint, for two campaigns, served concurrently
    heap,        \* the MerkleTree objects of the requests: [leaves, layers]
    reqs,        \* per request: the rows it read and the locals of its handler
    \* one user_activity_progress row and the requests that claim its reward
    progress,    \* the row of a (wallet, activity) pair, as committed
    claimers,    \* per claim request: its position, the row it loaded, its response
    granted      \* number of claim requests answered with the reward

treeVars == <<leaves, layers, pc, leaf, index, k, proof, root>>
verifyVars == <<v_call, v_result>>
endpointVars == <<db, ep_pc, response>>
concVars == <<heap, reqs>>
rewardVars == <<progress, claimers, granted>>
vars == <<treeVars, verifyVars, endpointVars, concVars, rewardVars>>

\* ------------------------------------------------------------------ bounds

\* Longest leaf list a tree is constructed from.
MaxLeaves == 5

\* ------------------------------------------------------------------- bytes

EmptyBytes == <<>>

RECURSIVE BytesLess(_, _)
\* Python's a < b on bytes: lexicographic, a proper prefix is smaller.
BytesLess(a, b) ==
    IF b = <<>> THEN FALSE
    ELSE IF a = <<>> THEN TRUE
    ELSE IF Head(a) # Head(b) THEN Head(a) < Head(b)
    ELSE BytesLess(Tail(a), Tail(b))

\* A pair kept in insertion order (no sort).
UnsortedPair(a, b) == <<a, b>>

\* A pair sorted the wrong way round (descending).
DescendingPair(a, b) == IF BytesLess(a, b) THEN <<b, a>> ELSE <<a, b>>

\* sorted([a, b]): ascending by byte value, stable.
SortedPair(a, b) == IF BytesLess(b, a) THEN <<b, a>> ELSE <<a, b>>

\* hashlib.sha3_256(x).digest(), collision-free.
Sha3(x) == <<Len(x)>> \o x

\* ------------------------------------------------------- address canonicalizer

HexDigits == {"0", "1", "2", "3", "4", "5", "6", "7", "8", "9",
              "a", "b", "c", "d", "e", "f", "A", "B", "C", "D", "E", "F"}

HexVal(c) ==
    CASE c = "0" -> 0 [] c = "1" -> 1 [] c = "2" -> 2 [] c = "3" -> 3
      [] c = "4" -> 4 [] c = "5" -> 5 [] c = "6" -> 6 [] c = "7" -> 7
      [] c = "8" -> 8 [] c = "9" -> 9
      [] c \in {"a", "A"} -> 10 [] c \in {"b", "B"} -> 11
      [] c \in {"c", "C"} -> 12 [] c \in {"d", "D"} -> 13
      [] c \in {"e", "E"} -> 14 [] c \in {"f", "F"} -> 15

RECURSIVE FromHex(_)
\* bytes.fromhex(s) on a sequence of characters: whitespace before a byte is
\* skipped, then two adjacent hex digits make one byte.  The result is
\* [ok |-> TRUE, bytes |-> ...], or ok = FALSE where Python raises ValueError.
FromHex(s) ==
    IF s = <<>> THEN [ok |-> TRUE, bytes |-> <<>>]
    ELSE IF Head(s) = " " THEN FromHex(Tail(s))
    ELSE IF Len(s) < 2 \/ Head(s) \notin HexDigits \/ s[2] \notin HexDigits
         THEN [ok |-> FALSE, bytes |-> <<>>]
    ELSE LET rest == FromHex(Tail(Tail(s)))
         IN  IF rest.ok
             THEN [ok |-> TRUE,
                   bytes |-> <<16 * HexVal(s[1]) + HexVal(s[2])>> \o rest.bytes]
             ELSE rest

\* address[2:] if address.startswith("0x") else address
StripPrefix(address) ==
    IF Len(address) >= 2 /\ address[1] = "0" /\ address[2] = "x"
    THEN Tail(Tail(address))
    ELSE address

\* _hash_address(address): b'' when the address is not valid hex.
HashAddress(address) ==
    LET parsed == FromHex(StripPrefix(address))
    IN  IF parsed.ok THEN Sha3(parsed.bytes) ELSE EmptyBytes

\* Wallet address strings the campaigns and vouchers hold.
AddressPool == {
    <<"0", "x", "0", "1">>,            \* well formed
    <<"0", "1">>,                      \* the same bytes without the prefix
    <<"0", "x", "0", "2">>,
    <<"0", "x", "A", "b">>,
    <<"0", "x">>,                      \* hex of no bytes
    <<"0", "x", "g", "1">>,            \* not hex
    <<"0", "x", "1">> }                \* odd number of digits

\* ------------------------------------------------------------ tree builder

Last(s) == s[Len(s)]

\* _next_layer hashing an unpaired last element with itself.
NextLayerDupLast(layer) ==
    [j \in 1..((Len(layer) + 1) \div 2) |->
        LET i == 2 * (j - 1)
            right == IF i + 1 < Len(layer) THEN layer[i + 2] ELSE layer[i + 1]
            pair == SortedPair(layer[i + 1], right)
        IN  Sha3(pair[1] \o pair[2])]

\* _next_layer looping over range(0, len(layer) - 1, 2): the unpaired last
\* element is dropped.
NextLayerDropLast(layer) ==
    [j \in 1..(Len(layer) \div 2) |->
        LET i == 2 * (j - 1)
            pair == SortedPair(layer[i + 1], layer[i + 2])
        IN  Sha3(pair[1] \o pair[2])]

\* MerkleTree._next_layer(layer)
NextLayer(layer) ==
    [j \in 1..((Len(layer) + 1) \div 2) |->
        LET i == 2 * (j - 1)
        IN  IF i + 1 < Len(layer)
            THEN LET pair == SortedPair(layer[i + 1], layer[i + 2])
                 IN  Sha3(pair[1] \o pair[2])
            ELSE layer[i + 1]]

RECURSIVE GrowLayers(_)
\* The while loop of MerkleTree.__init__, run to its end.
GrowLayers(ls) ==
    IF Len(Last(ls)) > 1 THEN GrowLayers(Append(ls, NextLayer(Last(ls)))) ELSE ls

\* MerkleTree(leaves).layers
BuildLayers(lvs) == GrowLayers(<<lvs>>)

\* get_root taking a tree of the leaf layer alone for a tree of no layers.
GetRootOfGrown(ls) ==
    IF Len(ls) <= 1 THEN [raised |-> FALSE, value |-> EmptyBytes]
    ELSE IF Last(ls) = <<>> THEN [raised |-> TRUE, value |-> EmptyBytes]
    ELSE [raised |-> FALSE, value |-> Last(ls)[1]]

\* MerkleTree.get_root(): layers[-1][0] if layers else b''; layers[-1][0]
\* raises IndexError when the last layer is empty.
GetRootOf(ls) ==
    IF ls = <<>> THEN [raised |-> FALSE, value |-> EmptyBytes]
    ELSE IF Last(ls) = <<>> THEN [raised |-> TRUE, value |-> EmptyBytes]
    ELSE [raised |-> FALSE, value |-> Last(ls)[1]]

\* ------------------------------------------- tree builder, standalone copy

RECURSIVE VM_NextLayerFrom(_, _, _)
\* verify_merkle.py, _next_layer: its for loop over range(0, len(layer), 2)
\* from position i on, with the list built so far.
VM_NextLayerFrom(layer, i, next_layer) ==
    IF i >= Len(layer) THEN next_layer
    ELSE IF i + 1 < Len(layer)
         THEN LET pair == SortedPair(layer[i + 1], layer[i + 2])
                  combined == pair[1] \o pair[2]
              IN  VM_NextLayerFrom(layer, i + 2, Append(next_layer, Sha3(combined)))
         ELSE VM_NextLayerFrom(layer, i + 2, Append(next_layer, layer[i + 1]))

\* verify_merkle.py, MerkleTree._next_layer(layer)
VM_NextLayer(layer) == VM_NextLayerFrom(layer, 0, <<>>)

RECURSIVE VM_GrowLayers(_)
\* verify_merkle.py, the while loop of MerkleTree.__init__.
VM_GrowLayers(ls) ==
    IF Len(ls[Len(ls)]) > 1
    THEN VM_GrowLayers(Append(ls, VM_NextLayer(ls[Len(ls)])))
    ELSE ls

\* verify_merkle.py, MerkleTree(leaves).layers
VM_BuildLayers(lvs) == VM_GrowLayers(<<lvs>>)

\* verify_merkle.py, MerkleTree.get_root()
VM_GetRootOf(ls) ==
    IF ls = <<>> THEN [raised |-> FALSE, value |-> EmptyBytes]
    ELSE IF ls[Len(ls)] = <<>> THEN [raised |-> TRUE, value |-> EmptyBytes]
    ELSE [raised |-> FALSE, value |-> ls[Len(ls)][1]]

\* ---------------------------------------------------------- proof generator

\* A lookup that resolves a value to its last occurrence.
IndexOfLast(s, x) ==
    IF \E i \in 1..Len(s) : s[i] = x
    THEN (CHOOSE i \in 1..Len(s) : s[i] = x /\ \A j \in (i + 1)..Len(s) : s[j] # x) - 1
    ELSE -1

\* An index lookup that answers 0 where list.index raises ValueError.
IndexOfOrZero(s, x) ==
    IF \E i \in 1..Len(s) : s[i] = x
    THEN (CHOOSE i \in 1..Len(s) : s[i] = x /\ \A j \in 1..(i - 1) : s[j] # x) - 1
    ELSE 0

\* list.index(x): 0-based position of the first occurrence; -1 stands for ValueError.
IndexOf(s, x) ==
    IF \E i \in 1..Len(s) : s[i] = x
    THEN (CHOOSE i \in 1..Len(s) : s[i] = x /\ \A j \in 1..(i - 1) : s[j] # x) - 1
    ELSE -1

\* A pass that appends the left sibling of an odd index and never the right
\* sibling of an even one.
ProofStepLeftOnly(layer, idx, prf) ==
    IF idx % 2 = 0 THEN prf ELSE Append(prf, layer[idx])

\* A pass that takes a left child's own position for its right sibling's
\* (layer[index] for layer[index + 1]).
ProofStepSelf(layer, idx, prf) ==
    IF idx % 2 = 0
    THEN IF idx + 1 < Len(layer) THEN Append(prf, layer[idx + 1]) ELSE prf
    ELSE Append(prf, layer[idx])

\* A pass that appends a left child itself when it has no right sibling.
ProofStepDupCarried(layer, idx, prf) ==
    IF idx % 2 = 0
    THEN IF idx + 1 < Len(layer)
         THEN Append(prf, layer[idx + 2])
         ELSE Append(prf, layer[idx + 1])
    ELSE Append(prf, layer[idx])

\* One pass of get_proof's for loop over `layer` at position idx: the proof after it.
ProofStep(layer, idx, prf) ==
    IF idx % 2 = 0
    THEN IF idx + 1 < Len(layer) THEN Append(prf, layer[idx + 2]) ELSE prf
    ELSE Append(prf, layer[idx])

RECURSIVE ProofLoop(_, _, _, _)
\* get_proof's for loop over layers[:-1] from layer number n on.
ProofLoop(ls, n, idx, prf) ==
    IF n > Len(ls) - 1 THEN prf
    ELSE ProofLoop(ls, n + 1, idx \div 2, ProofStep(ls[n], idx, prf))

\* MerkleTree.get_proof(leaf) on a tree with these leaves and layers.
GetProofOf(lvs, ls, lf) ==
    IF IndexOf(lvs, lf) = -1 THEN <<>>
    ELSE ProofLoop(ls, 1, IndexOf(lvs, lf), <<>>)

\* ----------------------------------------------------------- proof verifier

\* The verifier's step: hash of sorted([current, sibling]) concatenated.
HashSorted(current, sibling) ==
    IF BytesLess(sibling, current)
    THEN Sha3(sibling \o current)
    ELSE Sha3(current \o sibling)

RECURSIVE FoldByIndex(_, _, _)
\* A fold that puts the current value left for an even index and right for
\* an odd one, without sorting the pair.
FoldByIndex(current, idx, prf) ==
    IF prf = <<>> THEN current
    ELSE FoldByIndex(IF idx % 2 = 0 THEN Sha3(current \o Head(prf))
                                    ELSE Sha3(Head(prf) \o current),
                     idx \div 2, Tail(prf))

RECURSIVE Fold(_, _, _)
\* The value recomputed from a leaf, its index and a proof: every sibling is
\* folded in by the sorted-pair rule and the index is halved.
Fold(current, idx, prf) ==
    IF prf = <<>> THEN current
    ELSE Fold(HashSorted(current, Head(prf)), idx \div 2, Tail(prf))

\* verify(leaf, index, proof, root)
Verify(lf, idx, prf, rt) == Fold(lf, idx, prf) = rt

\* ------------------------------------------------------------------ the tree

\* Leaf values trees are constructed from and proofs are asked for.
LeafPool == { HashAddress(<<"0", "x", "0", "1">>),
              HashAddress(<<"0", "x", "0", "2">>),
              HashAddress(<<"0", "x">>),
              HashAddress(<<"0", "x", "9", "9", "9", "9">>) }

SeqsUpTo(S, n) == UNION { [1..m -> S] : m \in 0..n }

Range(s) == { s[i] : i \in 1..Len(s) }

\* Every value held by some node of the layers.
NodeValues(ls) == UNION { Range(ls[n]) : n \in 1..Len(ls) }

NoRoot == [called |-> FALSE, raised |-> FALSE, value |-> EmptyBytes]
NoVerify == [called |-> FALSE, leaf |-> EmptyBytes, index |-> 0, proof |-> <<>>,
             root |-> EmptyBytes]
NoRows == [voucher_found |-> FALSE, wallet_address |-> <<>>, token_amount |-> 0,
           campaign_found |-> FALSE, target_wallet_addresses |-> <<>>]
NoResponse == [status |-> 0, detail |-> "", body |-> <<>>]

\* No verifier call and no request in flight.
VerifyIdle == v_call = NoVerify /\ v_result = FALSE
EndpointIdle == db = NoRows /\ ep_pc = "idle" /\ response = NoResponse
ConcIdle == heap = <<>> /\ reqs = <<>>
RewardIdle == progress = <<>> /\ claimers = <<>> /\ granted = 0

\* __init__ up to the while loop: self.leaves = leaves; self.layers = [self.leaves]
Constructed(lvs) ==
    /\ leaves = lvs
    /\ layers = <<lvs>>
    /\ pc = "building"
    /\ leaf = EmptyBytes
    /\ index = 0
    /\ k = 0
    /\ proof = <<>>
    /\ root = NoRoot

Init ==
    /\ \E lvs \in SeqsUpTo(LeafPool, MaxLeaves) : Constructed(lvs)
    /\ VerifyIdle
    /\ ConcIdle
    /\ RewardIdle
    /\ EndpointIdle

\* One pass of the while loop of __init__.
BuildStep ==
    /\ pc = "building"
    /\ Len(Last(layers)) > 1
    /\ layers' = Append(layers, NextLayer(Last(layers)))
    /\ UNCHANGED <<leaves, pc, leaf, index, k, proof, root>>
    /\ UNCHANGED <<verifyVars, endpointVars, concVars, rewardVars>>

\* The loop test fails: __init__ returns.
BuildDone ==
    /\ pc = "building"
    /\ Len(Last(layers)) <= 1
    /\ pc' = "ready"
    /\ UNCHANGED <<leaves, layers, leaf, index, k, proof, root>>
    /\ UNCHANGED <<verifyVars, endpointVars, concVars, rewardVars>>

\* get_root()
GetRoot ==
    /\ pc = "ready"
    /\ root' = [called |-> TRUE, raised |-> GetRootOf(layers).raised,
                value |-> GetRootOf(layers).value]
    /\ UNCHANGED <<leaves, layers, pc, leaf, index, k, proof>>
    /\ UNCHANGED <<verifyVars, endpointVars, concVars, rewardVars>>

\* get_proof(lf) up to the for loop: the index lookup, [] when it fails.
GetProofCall(lf) ==
    /\ pc = "ready"
    /\ leaf' = lf
    /\ proof' = <<>>
    /\ IF IndexOf(leaves, lf) = -1
       THEN /\ pc' = "returned"
            /\ UNCHANGED <<index, k>>
       ELSE /\ index' = IndexOf(leaves, lf)
            /\ k' = 1
            /\ pc' = "proving"
    /\ UNCHANGED <<leaves, layers, root>>
    /\ UNCHANGED <<verifyVars, endpointVars, concVars, rewardVars>>

\* A pass of the for loop that keeps the index of the layer below.
GetProofStepNoHalve ==
    /\ pc = "proving"
    /\ k <= Len(layers) - 1
    /\ proof' = ProofStep(layers[k], index, proof)
    /\ index' = index
    /\ k' = k + 1
    /\ UNCHANGED <<leaves, layers, pc, leaf, root>>
    /\ UNCHANGED <<verifyVars, endpointVars, concVars, rewardVars>>

\* A pass of the for loop that consumes the layer it has read.
GetProofStepConsuming ==
    /\ pc = "proving"
    /\ k <= Len(layers) - 1
    /\ proof' = ProofStep(layers[k], index, proof)
    /\ index' = index \div 2
    /\ k' = k + 1
    /\ layers' = [layers EXCEPT ![k] = <<>>]
    /\ UNCHANGED <<leaves, pc, leaf, root>>
    /\ UNCHANGED <<verifyVars, endpointVars, concVars, rewardVars>>

\* One pass of get_proof's for loop.
GetProofStep ==
    /\ pc = "proving"
    /\ k <= Len(layers) - 1
    /\ proof' = ProofStep(layers[k], index, proof)
    /\ index' = index \div 2
    /\ k' = k + 1
    /\ UNCHANGED <<leaves, layers, pc, leaf, root>>
    /\ UNCHANGED <<verifyVars, endpointVars, concVars, rewardVars>>

\* The for loop is over: return proof.
GetProofReturn ==
    /\ pc = "proving"
    /\ k > Len(layers) - 1
    /\ pc' = "returned"
    /\ UNCHANGED <<leaves, layers, leaf, index, k, proof, root>>
    /\ UNCHANGED <<verifyVars, endpointVars, concVars, rewardVars>>

\* The caller drops the result; the tree is ready for the next call.
NextCall ==
    /\ pc = "returned"
    /\ pc' = "ready"
    /\ leaf' = EmptyBytes
    /\ index' = 0
    /\ k' = 0
    /\ proof' = <<>>
    /\ UNCHANGED <<leaves, layers, root>>
    /\ UNCHANGED <<verifyVars, endpointVars, concVars, rewardVars>>

\* The caller of a built tree asks for the proof of any leaf value.
GetProofAny ==
    /\ pc = "ready"
    /\ \E lf \in LeafPool : GetProofCall(lf)

Next ==
    \/ BuildStep
    \/ BuildDone
    \/ GetRoot
    \/ GetProofAny
    \/ GetProofStep
    \/ GetProofReturn
    \/ NextCall

\* A tree under construction, then any sequence of get_root and get_proof calls.
Spec == Init /\ [][Next]_vars

NextBuild ==
    \/ BuildStep
    \/ BuildDone

\* __init__ alone: its loop runs without interruption until its test fails.
SpecBuild == Init /\ [][NextBuild]_vars /\ WF_vars(NextBuild)

\* -------------------------------------------------------------- the verifier

\* Longest leaf list of the trees the verifier is called against.
MaxVerifyLeaves == 3

\* Values a caller of the verifier may present as a leaf or as a sibling: the
\* pool's leaves and the value of every node of the tree.
Presentable == LeafPool \cup NodeValues(layers)

\* Longest proof presented: as long as the longest proof of the tree, and
\* never shorter than one sibling.
PresentedProofLen == IF Len(layers) > 2 THEN Len(layers) - 1 ELSE 1

InitVerify ==
    /\ \E lvs \in SeqsUpTo(LeafPool, MaxVerifyLeaves) : Constructed(lvs)
    /\ VerifyIdle
    /\ ConcIdle
    /\ RewardIdle
    /\ EndpointIdle

\* verify(lf, idx, prf, root) against the root of the built tree.
VerifyCall(lf, idx, prf) ==
    /\ pc = "ready"
    /\ ~GetRootOf(layers).raised
    /\ v_call' = [called |-> TRUE, leaf |-> lf, index |-> idx, proof |-> prf,
                  root |-> GetRootOf(layers).value]
    /\ v_result' = Verify(lf, idx, prf, GetRootOf(layers).value)
    /\ pc' = "verified"
    /\ UNCHANGED <<leaves, layers, leaf, index, k, proof, root>>
    /\ UNCHANGED <<endpointVars, concVars, rewardVars>>

\* The caller of a built tree presents any leaf, index and proof.
VerifyAny ==
    /\ pc = "ready"
    /\ \E lf \in Presentable : \E idx \in 0..Len(leaves) :
           \E prf \in SeqsUpTo(Presentable, PresentedProofLen) :
               VerifyCall(lf, idx, prf)

NextVerify ==
    \/ BuildStep
    \/ BuildDone
    \/ VerifyAny

\* A tree under construction, then one call of the verifier on any leaf,
\* index and proof.
SpecVerify == InitVerify /\ [][NextVerify]_vars

\* ----------------------------------------------------- claim-details endpoint

\* Longest target address list of a campaign.
MaxTargets == 3

\* int(token_amount * 100_000_000)
AmountScale == 100000000

\* voucher_detail["tokenAmount"] of the vouchers (0 also when the key is missing).
TokenAmounts == {0, 2}

HexChars == <<"0", "1", "2", "3", "4", "5", "6", "7",
              "8", "9", "a", "b", "c", "d", "e", "f">>

RECURSIVE ToHex(_)
\* bytes.hex(): two lower-case hex digits per byte.
ToHex(b) ==
    IF b = <<>> THEN <<>>
    ELSE <<HexChars[(Head(b) \div 16) + 1], HexChars[(Head(b) % 16) + 1]>>
             \o ToHex(Tail(b))

RECURSIVE TargetLeavesUnfiltered(_)
\* The leaf list with the hash of every address appended (no `if h`).
TargetLeavesUnfiltered(addresses) ==
    IF addresses = <<>> THEN <<>>
    ELSE <<HashAddress(Head(addresses))>> \o TargetLeavesUnfiltered(Tail(addresses))

RECURSIVE TargetLeaves(_)
\* The leaf list of the handler: the hash of each target address, in order,
\* skipping the addresses whose hash is b''.
TargetLeaves(addresses) ==
    IF addresses = <<>> THEN <<>>
    ELSE LET h == HashAddress(Head(addresses))
         IN  (IF h # EmptyBytes THEN <<h>> ELSE <<>>) \o TargetLeaves(Tail(addresses))

NotFound(what) == [status |-> 404, detail |-> what, body |-> <<>>]

\* Steps 2 to 5 of the handler and its return, for a voucher and its campaign.
ClaimDetails(target_addresses, wallet_address, token_amount) ==
    LET lvs == TargetLeaves(target_addresses)
        tree == BuildLayers(lvs)
        user_leaf == HashAddress(wallet_address)
        prf == GetProofOf(lvs, tree, user_leaf)
        idx == IndexOf(lvs, user_leaf)
    IN  IF idx = -1
        THEN [status |-> 400,
              detail |-> "User not in target group or address mismatch",
              body |-> <<>>]
        ELSE [status |-> 200,
              detail |-> "",
              body |-> << [advertiser_addr |-> "campaign.wallet_address",
                           ad_id |-> "campaign.id",
                           index |-> idx,
                           amount |-> token_amount * AmountScale,
                           proof |-> [n \in 1..Len(prf) |-> ToHex(prf[n])],
                           leaf_hash |-> ToHex(user_leaf)] >>]

\* No tree has been constructed yet.
TreeIdle ==
    /\ leaves = <<>>
    /\ layers = <<>>
    /\ pc = "idle"
    /\ leaf = EmptyBytes
    /\ index = 0
    /\ k = 0
    /\ proof = <<>>
    /\ root = NoRoot

\* A request arrives; the tables hold, or do not hold, the voucher and its campaign.
InitEndpoint ==
    /\ TreeIdle
    /\ VerifyIdle
    /\ ConcIdle
    /\ RewardIdle
    /\ db \in [voucher_found : BOOLEAN,
               wallet_address : AddressPool,
               token_amount : TokenAmounts,
               campaign_found : BOOLEAN,
               target_wallet_addresses : SeqsUpTo(AddressPool, MaxTargets)]
    /\ ep_pc = "start"
    /\ response = NoResponse

\* 1. select the voucher; 404 when there is none.
FetchVoucher ==
    /\ ep_pc = "start"
    /\ IF db.voucher_found
       THEN ep_pc' = "voucher" /\ UNCHANGED response
       ELSE ep_pc' = "done" /\ response' = NotFound("Voucher not found")
    /\ UNCHANGED <<db, treeVars, verifyVars, concVars, rewardVars>>

\* select the campaign; 404 when there is none.
FetchCampaign ==
    /\ ep_pc = "voucher"
    /\ IF db.campaign_found
       THEN ep_pc' = "campaign" /\ UNCHANGED response
       ELSE ep_pc' = "done" /\ response' = NotFound("Campaign not found")
    /\ UNCHANGED <<db, treeVars, verifyVars, concVars, rewardVars>>

\* 2. to 5.: build the tree of the target list, the proof and the index of the
\* voucher's address, and answer.  The tree the handler built and the proof
\* it got are kept in the tree's variables.
ComputeClaim ==
    /\ ep_pc = "campaign"
    /\ leaves' = TargetLeaves(db.target_wallet_addresses)
    /\ layers' = BuildLayers(leaves')
    /\ leaf' = HashAddress(db.wallet_address)
    /\ proof' = GetProofOf(leaves', layers', leaf')
    /\ pc' = "returned"
    /\ response' = ClaimDetails(db.target_wallet_addresses, db.wallet_address,
                                db.token_amount)
    /\ ep_pc' = "done"
    /\ UNCHANGED <<index, k, root, db, verifyVars, concVars, rewardVars>>

NextEndpoint ==
    \/ FetchVoucher
    \/ FetchCampaign
    \/ ComputeClaim

\* One request to the claim-details endpoint, from its arrival to its response.
SpecEndpoint == InitEndpoint /\ [][NextEndpoint]_vars

\* ------------------------------------------------------- claims about the tree

\* The leaf occurs in layer 0 of the tree.
InLayer0(lf) == \E i \in 1..Len(leaves) : leaves[i] = lf

\* get_proof has returned.
Returned == pc = "returned"

\* C1: once get_proof(leaf) has returned for a leaf of layer 0, folding the
\* leaf with the returned proof under the sorted-pair rule (verify with the
\* leaf's index) gives exactly get_root().
RoundTripMembership ==
    (Returned /\ InLayer0(leaf))
        => /\ ~GetRootOf(layers).raised
           /\ Verify(leaf, IndexOf(leaves, leaf), proof, GetRootOf(layers).value)

\* C1 witness: the proof of the fifth of five leaves, carried up twice, has
\* been returned.
RoundTripWitness ==
    /\ Returned
    /\ Len(leaves) = 5
    /\ leaf = leaves[5]
    /\ IndexOf(leaves, leaf) = 4
    /\ Len(proof) = 1

\* C3 as stated, for forged values from outside layer 0: a value that is
\* neither a leaf of the tree nor the leaf get_proof was called for never
\* verifies with the proof get_proof returned, whatever leaf it was called for.
ForgedLeafNeverVerifies ==
    (Returned /\ ~GetRootOf(layers).raised)
        => \A x \in Presentable \ ({leaf} \cup Range(leaves)) :
               \A i \in 0..Len(leaves) :
                   ~Verify(x, i, proof, GetRootOf(layers).value)

\* C3 amended: a value that is not the leaf get_proof was called for never
\* verifies with the proof get_proof returned for a leaf of layer 0.
ForgedLeafRejected ==
    (Returned /\ InLayer0(leaf))
        => \A x \in Presentable \ {leaf} : \A i \in 0..Len(leaves) :
               ~Verify(x, i, proof, GetRootOf(layers).value)

\* C3 witness: a proof of three siblings has been returned for a leaf of a
\* tree that holds other leaves and inner nodes to forge with.
ForgedLeafWitness ==
    /\ Returned
    /\ InLayer0(leaf)
    /\ Len(proof) = 3
    /\ Cardinality(Presentable \ {leaf}) >= 6

\* C4: for a leaf that is not in layer 0, get_proof returns the empty proof.
NotFoundGivesEmptyProof ==
    (Returned /\ ~InLayer0(leaf)) => proof = <<>>

\* C4 witness: get_proof has returned for a leaf missing from a tree of
\* several layers.
NotFoundWitness ==
    /\ Returned
    /\ ~InLayer0(leaf)
    /\ Len(layers) >= 3

\* The parent _next_layer computes from the pair (a, b).
Parent(a, b) == NextLayer(<<a, b>>)[1]

\* C8: for any two node values a and b, the parent _next_layer computes from
\* (a, b) is the parent it computes from (b, a); so every parent in the tree
\* is also the parent of its two children swapped.
PairOrderInsensitive ==
    /\ pc = "building" => \A a, b \in Presentable : Parent(a, b) = Parent(b, a)
    /\ \A n \in 1..(Len(layers) - 1) : \A j \in 1..(Len(layers[n]) \div 2) :
           layers[n + 1][j] = Parent(layers[n][2 * j], layers[n][2 * j - 1])

\* C8 witness: a layer was built from a pair whose left child is the larger
\* one and a pair whose left child is the smaller one.
PairOrderWitness ==
    /\ Len(layers) >= 2
    /\ Len(leaves) >= 4
    /\ BytesLess(leaves[2], leaves[1])
    /\ BytesLess(leaves[3], leaves[4])

\* ceil(n / 2)
CeilHalf(n) == (n + 1) \div 2

\* C9: layer 0 is the input leaf sequence verbatim, every later layer has
\* length ceil(previous length / 2), and once a tree of a non-empty leaf
\* sequence is built its last layer has exactly one element.
LayerShape ==
    /\ layers[1] = leaves
    /\ \A n \in 2..Len(layers) : Len(layers[n]) = CeilHalf(Len(layers[n - 1]))
    /\ (pc # "building" /\ leaves # <<>>) => Len(Last(layers)) = 1

\* C9 witness: a built tree of five leaves, two of them equal, with layers of
\* 5, 3, 2 and 1 elements.
LayerShapeWitness ==
    /\ pc = "ready"
    /\ Len(leaves) = 5
    /\ leaves[1] = leaves[2]
    /\ Len(layers) = 4
    /\ Len(layers[2]) = 3

\* The smaller and the larger of two values by byte order.
MinBytes(x, y) == IF BytesLess(y, x) THEN y ELSE x
MaxBytes(x, y) == IF BytesLess(y, x) THEN x ELSE y

\* C10: the element j of layer n+1 that has two children x, y in layer n is
\* Hash(min(x, y) ++ max(x, y)); the root of a two-leaf tree is the hash of
\* its two leaves sorted and concatenated.
PairHashRule ==
    /\ \A n \in 1..(Len(layers) - 1) : \A j \in 1..(Len(layers[n]) \div 2) :
           LET x == layers[n][2 * j - 1]
               y == layers[n][2 * j]
           IN  layers[n + 1][j] = Sha3(MinBytes(x, y) \o MaxBytes(x, y))
    /\ (pc # "building" /\ Len(leaves) = 2)
           => GetRootOf(layers).value
                = Sha3(MinBytes(leaves[1], leaves[2]) \o MaxBytes(leaves[1], leaves[2]))

\* C10 witness: a built two-leaf tree whose first leaf is the larger one.
PairHashWitness ==
    /\ pc = "ready"
    /\ Len(leaves) = 2
    /\ BytesLess(leaves[2], leaves[1])
    /\ Len(layers) = 2

\* The leaves of a list are pairwise different.
Distinct(lvs) == \A i, j \in 1..Len(lvs) : lvs[i] = lvs[j] => i = j

\* The orderings of a list of distinct leaves.
Orderings(lvs) ==
    { p \in [1..Len(lvs) -> Range(lvs)] : Distinct(p) }

\* The sets of leaves of the next layer's nodes, from those of a layer's.
MergeGroups(groups) ==
    [j \in 1..CeilHalf(Len(groups)) |->
        IF 2 * j <= Len(groups)
        THEN groups[2 * j - 1] \cup groups[2 * j]
        ELSE groups[2 * j - 1]]

RECURSIVE GroupsFrom(_)
GroupsFrom(groups) ==
    Range(groups) \cup (IF Len(groups) > 1 THEN GroupsFrom(MergeGroups(groups)) ELSE {})

\* The sets of leaves that the nodes of the tree of a leaf list stand above:
\* the tree up to the order of the two children of each pair.
Groups(lvs) == GroupsFrom([i \in 1..Len(lvs) |-> {lvs[i]}])

\* get_root() has returned the root of a built tree of distinct leaves.
RootOfDistinct == pc = "ready" /\ root.called /\ ~root.raised /\ Distinct(leaves)

\* C7 as stated: every other ordering of a list of distinct leaves has a
\* root other than the one get_root returned.
PermutingChangesRoot ==
    RootOfDistinct
        => \A p \in Orderings(leaves) \ {leaves} :
               GetRootOf(BuildLayers(p)).value # root.value

\* C7 amended: an ordering of the same distinct leaves has the root get_root
\* returned exactly when it groups the same leaves under its nodes, that is
\* when it differs only by swapping the two children of pairs.
PermutingChangesRootUnlessSwap ==
    RootOfDistinct
        => \A p \in Orderings(leaves) :
               (GetRootOf(BuildLayers(p)).value = root.value)
                   <=> (Groups(p) = Groups(leaves))

\* C7 witness: the root of four distinct leaves, which some orderings keep
\* and others change, has been returned.
PermutingWitness ==
    /\ RootOfDistinct
    /\ Len(leaves) = 4
    /\ \E p \in Orderings(leaves) \ {leaves} : Groups(p) = Groups(leaves)
    /\ \E p \in Orderings(leaves) : Groups(p) # Groups(leaves)

\* -------------------------------------------------- claims about the verifier

\* The verifier has returned.
Verified == pc = "verified" /\ v_call.called

\* The proof get_proof's loop collects from node i of layer n up to the root.
PathFrom(n, i) == ProofLoop(layers, n, i - 1, <<>>)

\* C2 as stated, its "only if" half: the verifier returns true only when
\* layer 0 holds the leaf at the claimed index.
VerifyOnlyAtIndex ==
    (Verified /\ v_result)
        => /\ v_call.index < Len(leaves)
           /\ leaves[v_call.index + 1] = v_call.leaf

\* C2 amended: the verifier returns true exactly when the presented value is
\* the value of some node of the tree (a leaf of layer 0 or an inner node)
\* and the proof is the list of siblings from that node to the root; the
\* claimed index plays no part.
VerifyIffNodePath ==
    Verified
        => (v_result
              <=> \E n \in 1..Len(layers) : \E i \in 1..Len(layers[n]) :
                      /\ layers[n][i] = v_call.leaf
                      /\ v_call.proof = PathFrom(n, i))

\* C2 witness: the verifier has accepted the third leaf of three with its
\* proof under the index of a different leaf.
VerifyWitness ==
    /\ Verified
    /\ v_result
    /\ Len(leaves) = 3
    /\ v_call.leaf = leaves[3]
    /\ v_call.index = 0
    /\ leaves[1] # leaves[3]
    /\ Len(v_call.proof) = 1

\* -------------------------------------------------- claims about the endpoint

\* The handler has answered.
Answered == ep_pc = "done"

\* The hash of the voucher's wallet address is among the leaves built from
\* the campaign's target address list (the hashes of its well-formed addresses).
VoucherAddressTargeted ==
    HashAddress(db.wallet_address)
        \in { HashAddress(a) : a \in Range(db.target_wallet_addresses) } \ {EmptyBytes}

\* C5: the endpoint answers with a claim payload only when the hash of the
\* voucher's wallet address is among the leaves built from the target list;
\* when it is not, the request is rejected with an error and carries no payload
\* (and the targeted address of a voucher and campaign that exist gets its payload).
ClaimOnlyForTargeted ==
    Answered
        => /\ response.status = 200 => (VoucherAddressTargeted /\ Len(response.body) = 1)
           /\ ~VoucherAddressTargeted
                  => (response.status \in {400, 404} /\ response.body = <<>>)
           /\ (db.voucher_found /\ db.campaign_found /\ VoucherAddressTargeted)
                  => response.status = 200

\* C5 witness: a voucher with a malformed address was rejected against a
\* target list that holds a malformed address too.
ClaimRejectedWitness ==
    /\ Answered
    /\ db.voucher_found
    /\ db.campaign_found
    /\ HashAddress(db.wallet_address) = EmptyBytes
    /\ \E a \in Range(db.target_wallet_addresses) : HashAddress(a) = EmptyBytes
    /\ response.status = 400

\* ------------------------------------------- claims about carried elements

\* C11: when a layer has an odd number of elements, its last element is the
\* last element of the next layer, unchanged; every other element of the next
\* layer is the hash of its two children and a copy of neither.
OddCarry ==
    \A n \in 1..(Len(layers) - 1) :
        LET cur == layers[n]
            nxt == layers[n + 1]
        IN  /\ Len(cur) % 2 = 1
                => /\ Len(nxt) = (Len(cur) \div 2) + 1
                   /\ nxt[Len(nxt)] = cur[Len(cur)]
            /\ \A j \in 1..(Len(cur) \div 2) :
                   /\ nxt[j] \in { Sha3(cur[2 * j - 1] \o cur[2 * j]),
                                   Sha3(cur[2 * j] \o cur[2 * j - 1]) }
                   /\ nxt[j] \notin { cur[2 * j - 1], cur[2 * j] }

\* C11 witness: a built tree of five leaves, whose layers of five and of
\* three elements both carry their last element up.
OddCarryWitness ==
    /\ pc = "ready"
    /\ Len(leaves) = 5
    /\ Len(layers) = 4
    /\ layers[2][3] = leaves[5]
    /\ layers[3][2] = leaves[5]
    /\ leaves[5] # leaves[4]

\* The position in layer n of the ancestor of the leaf at position idx.
AncestorIndex(idx, n) == idx \div (2 ^ (n - 1))

\* The layers below the root in which the ancestor of the leaf at idx is the
\* unpaired last element.
CarriedLayers(idx) ==
    { n \in 1..(Len(layers) - 1) :
        /\ AncestorIndex(idx, n) % 2 = 0
        /\ AncestorIndex(idx, n) + 1 = Len(layers[n]) }

\* C12: a tree of five leaves has layers of 5, 3, 2 and 1 elements, and the
\* proof get_proof returns for a leaf of layer 0 is shorter than
\* (number of layers - 1) by one element for every layer in which the leaf's
\* ancestor is the carried element.
OddLayerCarryProof ==
    /\ (pc # "building" /\ Len(leaves) = 5)
           => [n \in 1..Len(layers) |-> Len(layers[n])] = <<5, 3, 2, 1>>
    /\ (Returned /\ InLayer0(leaf))
           => Len(proof) = (Len(layers) - 1)
                             - Cardinality(CarriedLayers(IndexOf(leaves, leaf)))

\* C12 witness: get_proof has returned for the fifth of five leaves, whose
\* ancestor is carried in two layers, and for which one sibling is left.
OddLayerCarryWitness ==
    /\ Returned
    /\ Len(leaves) = 5
    /\ leaf = leaves[5]
    /\ CarriedLayers(IndexOf(leaves, leaf)) = {1, 2}
    /\ proof = <<layers[3][1]>>

\* C13: a tree built from exactly one leaf has exactly one layer, get_root
\* returns that leaf itself, and get_proof for that leaf returns the empty list.
SingleLeafTree ==
    (pc # "building" /\ Len(leaves) = 1)
        => /\ Len(layers) = 1
           /\ root.called => (~root.raised /\ root.value = leaves[1])
           /\ (Returned /\ leaf = leaves[1]) => proof = <<>>

\* C13 witness: get_root and then get_proof have returned for the one leaf
\* of a single-leaf tree.
SingleLeafWitness ==
    /\ Len(leaves) = 1
    /\ root.called
    /\ Returned
    /\ leaf = leaves[1]

\* ------------------------------------------------ claims about failing input

\* C14: a tree is never built from an empty leaf sequence: construction
\* fails, so no caller ever holds a constructed tree of no leaves.
EmptyTreeRejected == ~(pc = "ready" /\ leaves = <<>>)

\* The address is valid hexadecimal once an optional "0x" is stripped.
WellFormed(address) == FromHex(StripPrefix(address)).ok

\* The handler has gone past step 3 with the value _hash_address returned for
\* the voucher's address.
LeafComputed == ep_pc = "done" /\ pc = "returned"

\* C15: _hash_address fails for an address that is not valid hexadecimal, so
\* the handler holds a value returned by _hash_address only for a well-formed
\* voucher address.
MalformedAddressFails == LeafComputed => WellFormed(db.wallet_address)

\* 0-based position of the first address of the list with the hash of `address`.
TargetPosition(addresses, address) ==
    (CHOOSE i \in 1..Len(addresses) :
        /\ HashAddress(addresses[i]) = HashAddress(address)
        /\ \A j \in 1..(i - 1) : HashAddress(addresses[j]) # HashAddress(address)) - 1

\* C16: the index of the claim payload is the zero-based position of the
\* claiming address within the original ordered target address list.
IndexIsTargetPosition ==
    (Answered /\ response.status = 200)
        => response.body[1].index
             = TargetPosition(db.target_wallet_addresses, db.wallet_address)

\* C17: the claim payload of an eligible address contains the root of the
\* tree built from the campaign's target list.
PayloadHasRoot ==
    (Answered /\ response.status = 200)
        => /\ "root" \in DOMAIN response.body[1]
           /\ response.body[1].root = ToHex(GetRootOf(layers).value)

\* ------------------------------------------------ claims about the tree's state

\* C18: no step changes the leaf list; a pass of __init__'s loop only appends
\* a layer and leaves the layers it read as they were; once the tree is
\* constructed, no step of get_root or get_proof, for a member or for a
\* non-member, changes any layer.
TreeImmutable ==
    [][/\ leaves' = leaves
       /\ Len(layers') >= Len(layers)
       /\ SubSeq(layers', 1, Len(layers)) = layers
       /\ pc # "building" => layers' = layers]_vars

\* C18 witness: get_root and then get_proof of a non-member have run on a tree
\* of three layers or more, which is still the tree built from the leaves.
TreeImmutableWitness ==
    /\ root.called
    /\ Returned
    /\ ~InLayer0(leaf)
    /\ Len(layers) >= 3
    /\ layers = BuildLayers(leaves)

\* C20: get_proof starts at the position of the leaf in layer 0; each pass of
\* its loop reads one layer below the root layer, in order, appends
\* layer[index+1] for an even index with a right neighbour, nothing for an even
\* index in the last position, layer[index-1] for an odd index, and halves the
\* index; it returns once every layer but the root layer was read, so the
\* proof holds exactly these siblings from the leaf layer toward the root.
ProofGenerationSteps ==
    [][/\ (pc = "ready" /\ pc' = "proving")
            => /\ index' = IndexOf(leaves, leaf')
               /\ leaves[index' + 1] = leaf'
               /\ k' = 1
               /\ proof' = <<>>
       /\ (pc = "proving" /\ pc' = "proving")
            => /\ k < Len(layers)
               /\ k' = k + 1
               /\ index % 2 = 0 /\ index + 1 < Len(layers[k])
                    => proof' = Append(proof, layers[k][index + 2])
               /\ index % 2 = 0 /\ index + 1 >= Len(layers[k])
                    => proof' = proof
               /\ index % 2 = 1
                    => proof' = Append(proof, layers[k][index])
               /\ index' = index \div 2
       /\ (pc = "proving" /\ pc' = "returned")
            => /\ k = Len(layers)
               /\ proof' = proof]_vars

\* C20 witness: get_proof has returned for the second of five leaves: an odd
\* index first, then even indexes with a right neighbour, three siblings.
ProofGenerationWitness ==
    /\ Returned
    /\ Len(leaves) = 5
    /\ IndexOf(leaves, leaf) = 1
    /\ proof = <<leaves[1], layers[2][2], layers[3][2]>>

\* -------------------------------------------------- two concurrent requests

MaxConcTargets == 2

\* The two requests in flight, each for a voucher of a campaign of its own.
Requests == {1, 2}

\* Wallet addresses of the two campaigns and vouchers.
ConcAddressPool == {
    <<"0", "x", "0", "1">>,
    <<"0", "x", "0", "2">>,
    <<"0", "x", "g", "1">> }

\* voucher_detail["tokenAmount"] of both vouchers.
ConcTokenAmount == CHOOSE a \in TokenAmounts : a > 0

\* No MerkleTree object constructed yet.
NoTree == [leaves |-> <<>>, layers |-> <<>>]

\* Every request works on one and the same tree object.
SharedTreeOf(r) == 1

\* MerkleTree(leaves) gives the request a new object, with attributes of its own.
TreeOf(r) == r

\* Steps 4 and 5 of the handler: the position of the user's leaf, the 400
\* when there is none, the payload otherwise.
ClaimAnswer(lvs, user_leaf, prf, token_amount) ==
    LET idx == IndexOf(lvs, user_leaf)
    IN  IF idx = -1
        THEN [status |-> 400,
              detail |-> "User not in target group or address mismatch",
              body |-> <<>>]
        ELSE [status |-> 200,
              detail |-> "",
              body |-> << [advertiser_addr |-> "campaign.wallet_address",
                           ad_id |-> "campaign.id",
                           index |-> idx,
                           amount |-> token_amount * AmountScale,
                           proof |-> [n \in 1..Len(prf) |-> ToHex(prf[n])],
                           leaf_hash |-> ToHex(user_leaf)] >>]

\* An IndexError escapes the handler.
ServerError == [status |-> 500, detail |-> "Internal Server Error", body |-> <<>>]

\* The handler of a request that has read its voucher and its campaign.
NewRequest(targets, wallet) ==
    [pc |-> "start", targets |-> targets, wallet |-> wallet,
     leaves |-> <<>>, leaf |-> EmptyBytes, index |-> 0, k |-> 0,
     proof |-> <<>>, response |-> NoResponse]

InitConcurrent ==
    /\ TreeIdle
    /\ VerifyIdle
    /\ EndpointIdle
    /\ RewardIdle
    /\ heap = [t \in Requests |-> NoTree]
    /\ reqs \in [Requests ->
                   {NewRequest(t, w) : t \in SeqsUpTo(ConcAddressPool, MaxConcTargets),
                                       w \in ConcAddressPool}]

\* Step 2 of the handler and the first two statements of __init__.
StartClaim(r) ==
    /\ reqs[r].pc = "start"
    /\ LET lvs == TargetLeaves(reqs[r].targets)
       IN  /\ heap' = [heap EXCEPT ![TreeOf(r)] = [leaves |-> lvs, layers |-> <<lvs>>]]
           /\ reqs' = [reqs EXCEPT ![r].leaves = lvs, ![r].pc = "building"]
    /\ UNCHANGED <<treeVars, verifyVars, endpointVars, rewardVars>>

\* One pass of the while loop of __init__, on the request's tree.
BuildStepOf(r) ==
    /\ reqs[r].pc = "building"
    /\ Len(Last(heap[TreeOf(r)].layers)) > 1
    /\ heap' = [heap EXCEPT ![TreeOf(r)].layers = Append(@, NextLayer(Last(@)))]
    /\ UNCHANGED <<reqs, treeVars, verifyVars, endpointVars, rewardVars>>

\* The loop test fails: MerkleTree(leaves) returns.
BuildDoneOf(r) ==
    /\ reqs[r].pc = "building"
    /\ Len(Last(heap[TreeOf(r)].layers)) <= 1
    /\ reqs' = [reqs EXCEPT ![r].pc = "built"]
    /\ UNCHANGED <<heap, treeVars, verifyVars, endpointVars, rewardVars>>

\* user_leaf = _hash_address(...) and get_proof(user_leaf) up to its for loop.
GetProofCallOf(r) ==
    /\ reqs[r].pc = "built"
    /\ LET lf == HashAddress(reqs[r].wallet)
           idx == IndexOf(heap[TreeOf(r)].leaves, lf)
       IN  reqs' = [reqs EXCEPT ![r].leaf = lf,
                                ![r].proof = <<>>,
                                ![r].index = IF idx = -1 THEN @ ELSE idx,
                                ![r].k = IF idx = -1 THEN @ ELSE 1,
                                ![r].pc = IF idx = -1 THEN "proved" ELSE "proving"]
    /\ UNCHANGED <<heap, treeVars, verifyVars, endpointVars, rewardVars>>

\* One pass of get_proof's for loop; layer[index - 1] out of range raises.
GetProofStepOf(r) ==
    /\ reqs[r].pc = "proving"
    /\ reqs[r].k <= Len(heap[TreeOf(r)].layers) - 1
    /\ LET layer == heap[TreeOf(r)].layers[reqs[r].k]
       IN  IF reqs[r].index % 2 = 1 /\ reqs[r].index > Len(layer)
           THEN reqs' = [reqs EXCEPT ![r].response = ServerError, ![r].pc = "done"]
           ELSE reqs' = [reqs EXCEPT
                           ![r].proof = ProofStep(layer, reqs[r].index, @),
                           ![r].index = @ \div 2,
                           ![r].k = @ + 1]
    /\ UNCHANGED <<heap, treeVars, verifyVars, endpointVars, rewardVars>>

\* The for loop is over: get_proof returns.
GetProofReturnOf(r) ==
    /\ reqs[r].pc = "proving"
    /\ reqs[r].k > Len(heap[TreeOf(r)].layers) - 1
    /\ reqs' = [reqs EXCEPT ![r].pc = "proved"]
    /\ UNCHANGED <<heap, treeVars, verifyVars, endpointVars, rewardVars>>

\* Steps 4 and 5 of the handler, on its own list `leaves`.
AnswerClaim(r) ==
    /\ reqs[r].pc = "proved"
    /\ reqs' = [reqs EXCEPT
                  ![r].response = ClaimAnswer(reqs[r].leaves, reqs[r].leaf,
                                              reqs[r].proof, ConcTokenAmount),
                  ![r].pc = "done"]
    /\ UNCHANGED <<heap, treeVars, verifyVars, endpointVars, rewardVars>>

StartAny == \E r \in Requests : StartClaim(r)
BuildStepAny == \E r \in Requests : BuildStepOf(r)
BuildDoneAny == \E r \in Requests : BuildDoneOf(r)
GetProofCallAnyOf == \E r \in Requests : GetProofCallOf(r)
GetProofStepAny == \E r \in Requests : GetProofStepOf(r)
GetProofReturnAny == \E r \in Requests : GetProofReturnOf(r)
AnswerAny == \E r \in Requests : AnswerClaim(r)

NextConcurrent ==
    \/ StartAny
    \/ BuildStepAny
    \/ BuildDoneAny
    \/ GetProofCallAnyOf
    \/ GetProofStepAny
    \/ GetProofReturnAny
    \/ AnswerAny

\* Two handlers past their database reads, their steps interleaved in any order.
SpecConcurrent == InitConcurrent /\ [][NextConcurrent]_vars

\* ------------------------------------------------ claims about concurrency

\* The leaf list a request's handler builds when it runs alone.
AloneLeaves(r) == TargetLeaves(reqs[r].targets)

\* C19: under any interleaving of the steps of the two requests, a request's
\* tree, once constructed, is the tree built from its own campaign's list (so
\* its root is the root of that tree), and a request that has answered
\* answers with the proof, the index and the payload or error it gets when
\* its handler runs alone.
NoInterference ==
    \A r \in Requests :
        /\ reqs[r].pc \in {"built", "proving", "proved", "done"}
             => /\ heap[TreeOf(r)].layers = BuildLayers(AloneLeaves(r))
                /\ GetRootOf(heap[TreeOf(r)].layers)
                     = GetRootOf(BuildLayers(AloneLeaves(r)))
        /\ reqs[r].pc = "done"
             => /\ reqs[r].proof = GetProofOf(AloneLeaves(r), BuildLayers(AloneLeaves(r)),
                                              HashAddress(reqs[r].wallet))
                /\ reqs[r].response = ClaimDetails(reqs[r].targets, reqs[r].wallet,
                                                   ConcTokenAmount)

\* C19 witness: the first request has answered with a payload and a proof of
\* one sibling while the second, for a campaign with another target list, is
\* inside get_proof's loop on a tree of two layers.
NoInterferenceWitness ==
    /\ reqs[1].pc = "done"
    /\ reqs[1].response.status = 200
    /\ Len(reqs[1].proof) = 1
    /\ reqs[2].pc = "proving"
    /\ reqs[2].targets # reqs[1].targets
    /\ Len(heap[TreeOf(2)].layers) = 2

\* ------------------------------------------------ claims about proof length

\* C21 as stated: the proof get_proof returns for a leaf of layer 0 has one
\* sibling per layer below the root layer.
ProofLengthIsDepth ==
    (Returned /\ InLayer0(leaf)) => Len(proof) = Len(layers) - 1

\* C21: the proof get_proof returns for a leaf of layer 0 has at most one
\* sibling per layer below the root layer, and exactly one per such layer if
\* and only if the leaf's ancestor is the carried element of no layer.
ProofLengthAtMostDepth ==
    (Returned /\ InLayer0(leaf))
        => /\ Len(proof) <= Len(layers) - 1
           /\ Len(proof) = Len(layers) - 1
                <=> CarriedLayers(IndexOf(leaves, leaf)) = {}

\* C21 witness: get_proof has returned one sibling for the third leaf of a
\* tree of three leaves, which has two layers below the root layer.
ProofLengthWitness ==
    /\ Returned
    /\ Len(leaves) = 3
    /\ IndexOf(leaves, leaf) = 2
    /\ Len(layers) = 3
    /\ Len(proof) = 1

\* ------------------------------------------------ claims about duplicates

\* The handler has answered with a claim payload.
Paid == Answered /\ response.status = 200

\* C22: whatever duplicates the leaf list holds, the index of the payload is
\* the first position of the user's leaf in layer 0, the proof get_proof
\* returned is the list of siblings on the path from that same position (its
\* first element the neighbour of that position), the payload carries that
\* proof, and folding the leaf with it gives the root of the tree.
DuplicatesResolveFirst ==
    Paid =>
        LET idx == response.body[1].index
        IN  /\ leaves[idx + 1] = leaf
            /\ \A j \in 1..idx : leaves[j] # leaf
            /\ proof = PathFrom(1, idx + 1)
            /\ (idx % 2 = 1) => proof[1] = leaves[idx]
            /\ (idx % 2 = 0 /\ idx + 1 < Len(leaves)) => proof[1] = leaves[idx + 2]
            /\ response.body[1].proof = [n \in 1..Len(proof) |-> ToHex(proof[n])]
            /\ Verify(leaf, idx, proof, GetRootOf(layers).value)

\* C22 witness: the user's leaf is the second and the third of three leaves,
\* and the payload carries index 1 and a proof of two siblings.
DuplicatesWitness ==
    /\ Paid
    /\ Len(leaves) = 3
    /\ leaves[1] # leaf
    /\ leaves[2] = leaf
    /\ leaves[3] = leaf
    /\ response.body[1].index = 1
    /\ Len(response.body[1].proof) = 2

\* ------------------------------------------------ claims about the index argument

\* C23: the value the verifier recomputes from a leaf and a proof, and so its
\* result, are the same for every index: odd or even, in the tree or beyond it.
VerifyIgnoresIndex ==
    Verified
        => \A i \in 0..(2 ^ Len(layers)) :
               /\ Fold(v_call.leaf, i, v_call.proof)
                    = Fold(v_call.leaf, v_call.index, v_call.proof)
               /\ Verify(v_call.leaf, i, v_call.proof, v_call.root) = v_result

\* C23 witness: the verifier has accepted the first of two different leaves,
\* with its one-sibling proof, under the odd index of the other leaf.
VerifyIgnoresIndexWitness ==
    /\ Verified
    /\ v_result
    /\ Len(leaves) = 2
    /\ leaves[1] # leaves[2]
    /\ v_call.leaf = leaves[1]
    /\ v_call.index = 1
    /\ v_call.proof = <<leaves[2]>>

\* ------------------------------------------------ claims about termination

\* The least e with 2^e >= n, for n >= 1.
CeilLog2(n) == CHOOSE e \in 0..n : 2 ^ e >= n /\ (e = 0 \/ 2 ^ (e - 1) < n)

\* C24: the construction of a tree ends for every leaf sequence; every pass
\* of its loop adds a layer strictly shorter than the layer it read; and for
\* n >= 1 leaves it ends with a last layer of one element after exactly
\* ceil(log2(n)) added layers.
ConstructionTerminates ==
    /\ <>(pc = "ready")
    /\ [][layers' # layers
            => /\ Len(Last(layers)) > 1
               /\ Len(layers') = Len(layers) + 1
               /\ Len(Last(layers')) < Len(Last(layers))]_vars
    /\ []((pc = "ready" /\ Len(leaves) >= 1)
            => /\ Len(Last(layers)) = 1
               /\ Len(layers) - 1 = CeilLog2(Len(leaves)))

\* C24 witness: the construction has ended for three leaves, after two added
\* layers and with a last layer of one element.
ConstructionWitness ==
    /\ pc = "ready"
    /\ Len(leaves) = 3
    /\ Len(layers) - 1 = 2
    /\ Len(Last(layers)) = 1

\* ------------------------------------------------ claims about the two builders

\* C25: for every leaf sequence, the layers the endpoint's MerkleTree has
\* built so far are the first layers of the standalone MerkleTree of the same
\* leaves, every layer it adds is the layer the standalone _next_layer gives,
\* the finished trees have identical layers, and get_root gives the same
\* outcome on both.
BuildersAgree ==
    LET standalone == VM_BuildLayers(leaves)
    IN  /\ Len(layers) <= Len(standalone)
        /\ layers = SubSeq(standalone, 1, Len(layers))
        /\ \A n \in 1..(Len(layers) - 1) : layers[n + 1] = VM_NextLayer(layers[n])
        /\ pc # "building" => layers = standalone
        /\ root.called
             => [raised |-> root.raised, value |-> root.value] = VM_GetRootOf(standalone)

\* C25 witness: get_root has returned on the endpoint's tree of five leaves,
\* and its value is the root of the standalone tree of these leaves.
BuildersAgreeWitness ==
    /\ pc = "ready"
    /\ root.called
    /\ Len(leaves) = 5
    /\ Len(VM_BuildLayers(leaves)) = 4
    /\ root.value = VM_GetRootOf(VM_BuildLayers(leaves)).value

\* ------------------------------------------------ claims about corrupt input

\* C26: get_root on a tree built from no leaves returns the empty byte value
\* and does not raise.
EmptyTreeRootIsEmpty ==
    (root.called /\ leaves = <<>>) => (~root.raised /\ root.value = EmptyBytes)

\* C27: every leaf of the tree the handler constructs is the hash of the bytes
\* of a well-formed address of the campaign's target list, and none is the
\* empty value, whatever malformed addresses the list holds.
NoCorruptLeaf ==
    (Answered /\ pc = "returned")
        => \A i \in 1..Len(leaves) :
               /\ leaves[i] # EmptyBytes
               /\ \E a \in Range(db.target_wallet_addresses) :
                      /\ WellFormed(a)
                      /\ leaves[i] = Sha3(FromHex(StripPrefix(a)).bytes)

\* C27 witness: the handler has built a tree of one leaf or more from a target
\* list that holds a malformed address.
NoCorruptLeafWitness ==
    /\ Answered
    /\ pc = "returned"
    /\ \E a \in Range(db.target_wallet_addresses) : ~WellFormed(a)
    /\ Len(leaves) >= 1
    /\ Len(leaves) < Len(db.target_wallet_addresses)

\* ------------------------------------------------ claims about get_proof's index

\* C28: while get_proof walks up from a leaf of layer 0, its index is a
\* position of the layer it visits next (0 <= index < len(layer)); so
\* layer[index - 1], read for an odd index, is at a position >= 0, and
\* layer[index + 1] is read only below len(layer).
IndexInBounds ==
    (pc = "proving" /\ k <= Len(layers))
        => /\ 0 <= index
           /\ index < Len(layers[k])
           /\ index % 2 = 1 => index - 1 >= 0

\* C28 witness: get_proof for the fifth of five leaves is about to visit the
\* layer of three elements at its last position.
IndexInBoundsWitness ==
    /\ pc = "proving"
    /\ Len(leaves) = 5
    /\ k = 2
    /\ index = 2
    /\ Len(layers[k]) = 3

\* C29: for a leaf of layer 0 of a tree of two leaves or more, get_proof
\* returns a proof of at least one sibling; so get_proof returns the empty
\* proof exactly when the leaf is not in layer 0 or the tree has a single leaf.
EmptyProofMeaning ==
    Returned
        => /\ (InLayer0(leaf) /\ Len(leaves) >= 2) => Len(proof) >= 1
           /\ proof = <<>> <=> (~InLayer0(leaf) \/ Len(leaves) = 1)

\* C29 witness: get_proof has returned one sibling for the first of two
\* different leaves.
EmptyProofWitness ==
    /\ Returned
    /\ Len(leaves) = 2
    /\ leaves[1] # leaves[2]
    /\ leaf = leaves[1]
    /\ proof = <<leaves[2]>>

\* ---------------------------------------------------------- activity rewards

MaxTargetCount == 2

\* The claim requests in flight for one (wallet, activity) pair, each with a
\* database session of its own.
Claimers == {1, 2}

\* activity.target_count of the activity.
ActivityTargetCount == MaxTargetCount

\* No user_activity_progress row for the pair.
NoProgress == [exists |-> FALSE, current_count |-> 0,
               is_completed |-> FALSE, reward_claimed |-> FALSE]

\* The rows update_activity_progress leaves behind before any claim.
ProgressRows ==
    {NoProgress}
        \cup { [exists |-> TRUE, current_count |-> c,
                is_completed |-> c >= ActivityTargetCount,
                reward_claimed |-> FALSE] : c \in 0..ActivityTargetCount }

\* A claim request that has not run yet; id_ok: activity_id parses as a UUID.
NewClaim(id_ok) ==
    [pc |-> "start", id_ok |-> id_ok, loaded |-> NoProgress, response |-> NoResponse]

BadRequest(what) == [status |-> 400, detail |-> what, body |-> <<>>]

RewardClaimed ==
    [status |-> 200, detail |-> "",
     body |-> << [success |-> TRUE,
                  rewardTokens |-> "activity.reward_tokens",
                  message |-> "Reward claimed successfully"] >>]

InitReward ==
    /\ TreeIdle
    /\ VerifyIdle
    /\ ConcIdle
    /\ EndpointIdle
    /\ progress \in ProgressRows
    /\ claimers \in [Claimers -> {NewClaim(ok) : ok \in BOOLEAN}]
    /\ granted = 0

\* update_activity_progress: get or create the row, count up to the target,
\* mark it completed at the target; reward_claimed is not written.
UpdateProgress(increment) ==
    LET row == IF progress.exists THEN progress
               ELSE [exists |-> TRUE, current_count |-> 0,
                     is_completed |-> FALSE, reward_claimed |-> FALSE]
        count == IF row.current_count + increment < ActivityTargetCount
                 THEN row.current_count + increment
                 ELSE ActivityTargetCount
    IN  /\ progress' = IF ~row.is_completed
                       THEN [row EXCEPT !.current_count = count,
                                        !.is_completed = count >= ActivityTargetCount]
                       ELSE row
        /\ UNCHANGED <<claimers, granted>>
        /\ UNCHANGED <<treeVars, verifyVars, endpointVars, concVars>>

\* claim_activity_reward up to its second SELECT: the row is loaded into the
\* request's session and checked.
ClaimCheck(c) ==
    /\ claimers[c].pc = "start"
    /\ claimers' = [claimers EXCEPT ![c] =
          IF ~@.id_ok
          THEN [@ EXCEPT !.response = BadRequest("Invalid activity ID format"),
                         !.pc = "done"]
          ELSE IF ~progress.exists
          THEN [@ EXCEPT !.response = NotFound("Activity progress not found"),
                         !.pc = "done"]
          ELSE IF ~progress.is_completed
          THEN [@ EXCEPT !.loaded = progress,
                         !.response = BadRequest("Activity is not completed"),
                         !.pc = "done"]
          ELSE IF progress.reward_claimed
          THEN [@ EXCEPT !.loaded = progress,
                         !.response = BadRequest("Reward already claimed"),
                         !.pc = "done"]
          ELSE [@ EXCEPT !.loaded = progress, !.pc = "checked"]]
    /\ UNCHANGED <<progress, granted>>
    /\ UNCHANGED <<treeVars, verifyVars, endpointVars, concVars>>

\* The rest of claim_activity_reward: reward_claimed = True is committed for
\* the loaded row and the reward is answered.
ClaimCommit(c) ==
    /\ claimers[c].pc = "checked"
    /\ progress' = [progress EXCEPT !.reward_claimed = TRUE]
    /\ claimers' = [claimers EXCEPT ![c].response = RewardClaimed, ![c].pc = "done"]
    /\ granted' = granted + 1
    /\ UNCHANGED <<treeVars, verifyVars, endpointVars, concVars>>

\* The client sends its claim once more.
ClaimAgain(c) ==
    /\ claimers[c].pc = "done"
    /\ \E ok \in BOOLEAN : claimers' = [claimers EXCEPT ![c] = NewClaim(ok)]
    /\ UNCHANGED <<progress, granted>>
    /\ UNCHANGED <<treeVars, verifyVars, endpointVars, concVars>>

UpdateAny == \E increment \in 1..MaxTargetCount : UpdateProgress(increment)
ClaimCheckAny == \E c \in Claimers : ClaimCheck(c)
ClaimCommitAny == \E c \in Claimers : ClaimCommit(c)
ClaimAgainAny == \E c \in Claimers : ClaimAgain(c)

NextReward ==
    \/ UpdateAny
    \/ ClaimCheckAny
    \/ ClaimCommitAny
    \/ ClaimAgainAny

\* Progress updates and claim requests for one (wallet, activity) pair, the
\* claim requests interleaved at their awaits.
SpecReward == InitReward /\ [][NextReward]_vars

\* ------------------------------------------------ claims about rewards

\* C30: the reward of a progress record is granted at most once, whatever the
\* interleaving of the claim requests; a request is answered with the reward
\* only for a completed record, which is marked reward_claimed from then on.
RewardAtMostOnce ==
    /\ granted <= 1
    /\ \A c \in Claimers :
           claimers[c].response = RewardClaimed
               => progress.is_completed /\ progress.reward_claimed

====
